---------------------------- MODULE Spec2Model ----------------------------
(***************************************************************************)
(* Admin authentication of the Up2You backend (backend/src/index.ts):      *)
(* the Google OAuth start/callback flow, the HMAC-signed admin_session     *)
(* cookie, readSession, /api/auth/me and /api/auth/logout.                 *)
(*                                                                         *)
(* A JavaScript string is a sequence of one-character strings, so that     *)
(* split('.'), startsWith('/'), trim(), base64url and JSON work on         *)
(* characters as the code does.                                            *)
(***************************************************************************)
EXTENDS Integers, Sequences, FiniteSets, TLC

VARIABLES
  env,     \* process.env: the configuration the handlers read
  clock,   \* Date.now(), in milliseconds
  cb,      \* the callback handler in flight: where it awaits, and its locals
  jar,     \* the browser's admin_session cookie
  minted,  \* the token the last successful callback minted, and from what
  idp,     \* the state parameter the identity provider was last sent
  resp     \* the response just sent, until the client takes it

vars == <<env, clock, cb, jar, minted, idp, resp>>

---------------------------------------------------------------------------
(* Characters and bytes.  Buffer.from(json) is UTF-8; the model keeps to   *)
(* the ASCII range, where one character is one byte.  The grave accent     *)
(* (byte 96) cannot be written in a TLA+ string and is spelled GRAVE.      *)

Printable ==
  <<" ", "!", "\"", "#", "$", "%", "&", "'", "(", ")", "*", "+", ",", "-", ".", "/",
    "0", "1", "2", "3", "4", "5", "6", "7", "8", "9", ":", ";", "<", "=", ">", "?",
    "@", "A", "B", "C", "D", "E", "F", "G", "H", "I", "J", "K", "L", "M", "N", "O",
    "P", "Q", "R", "S", "T", "U", "V", "W", "X", "Y", "Z", "[", "\\", "]", "^", "_",
    "GRAVE", "a", "b", "c", "d", "e", "f", "g", "h", "i", "j", "k", "l", "m", "n", "o",
    "p", "q", "r", "s", "t", "u", "v", "w", "x", "y", "z", "{", "|", "}", "~">>

PrintableSet == {Printable[i] : i \in DOMAIN Printable}

OrdTable == [c \in PrintableSet |->
               31 + (CHOOSE i \in DOMAIN Printable : Printable[i] = c)]

\* the byte of a character (tab, line feed and carriage return are the
\* JSON whitespace controls)
Ord(c) == IF c \in PrintableSet THEN OrdTable[c]
          ELSE IF c = "\t" THEN 9 ELSE IF c = "\n" THEN 10 ELSE 13

\* toString('utf8') of one byte: a control byte stays a control character,
\* a byte outside ASCII decodes to the replacement character
Chr(b) == IF b >= 32 /\ b < 32 + Len(Printable)
            THEN Printable[b - 31]
          ELSE IF b = 9 THEN "\t" ELSE IF b = 10 THEN "\n" ELSE IF b = 13 THEN "\r"
          ELSE IF b < 128 THEN "CTRL" ELSE "U+FFFD"

---------------------------------------------------------------------------
(* base64url, as Buffer.toString('base64url') / Buffer.from(s,'base64url') *)

B64Alphabet ==
  <<"A", "B", "C", "D", "E", "F", "G", "H", "I", "J", "K", "L", "M", "N", "O", "P",
    "Q", "R", "S", "T", "U", "V", "W", "X", "Y", "Z", "a", "b", "c", "d", "e", "f",
    "g", "h", "i", "j", "k", "l", "m", "n", "o", "p", "q", "r", "s", "t", "u", "v",
    "w", "x", "y", "z", "0", "1", "2", "3", "4", "5", "6", "7", "8", "9", "-", "_">>

B64Set == {B64Alphabet[i] : i \in DOMAIN B64Alphabet}

B64Index == [c \in B64Set |-> (CHOOSE i \in DOMAIN B64Alphabet : B64Alphabet[i] = c) - 1]

\* the decoder also takes the standard alphabet's '+' and '/'
B64Value(c) == IF c = "+" THEN 62 ELSE IF c = "/" THEN 63 ELSE B64Index[c]

B64Legal(c) == c \in B64Set \/ c = "+" \/ c = "/"

\* Buffer.from(str).toString('base64url'): three bytes make four characters,
\* no padding
Base64UrlEncode(str) ==
  LET n == Len(str)
      B(j) == IF j <= n THEN Ord(str[j]) ELSE 0
      sextet(i) ==
        LET g == (i - 1) \div 4
            k == (i - 1) % 4
            b1 == B(3 * g + 1)
            b2 == B(3 * g + 2)
            b3 == B(3 * g + 3)
        IN  CASE k = 0 -> b1 \div 4
              [] k = 1 -> (b1 % 4) * 16 + (b2 \div 16)
              [] k = 2 -> (b2 % 16) * 4 + (b3 \div 64)
              [] OTHER -> b3 % 64
  IN  [i \in 1..((4 * n + 2) \div 3) |-> B64Alphabet[sextet(i) + 1]]

\* index of the first '=' (decoding stops there), or Len+1
PadStart(s) == IF \E i \in DOMAIN s : s[i] = "="
                 THEN CHOOSE i \in DOMAIN s : s[i] = "=" /\ \A j \in 1..(i - 1) : s[j] # "="
                 ELSE Len(s) + 1

\* Buffer.from(b64,'base64url').toString('utf8'): illegal characters are
\* skipped, a trailing lone character is dropped; it never throws
Base64UrlDecode(b64) ==
  LET legal == SelectSeq(SubSeq(b64, 1, PadStart(b64) - 1), B64Legal)
      m == Len(legal)
      V(j) == IF j <= m THEN B64Value(legal[j]) ELSE 0
      byte(i) ==
        LET g == (i - 1) \div 3
            k == (i - 1) % 3
            v1 == V(4 * g + 1)
            v2 == V(4 * g + 2)
            v3 == V(4 * g + 3)
            v4 == V(4 * g + 4)
        IN  CASE k = 0 -> v1 * 4 + (v2 \div 16)
              [] k = 1 -> (v2 % 16) * 16 + (v3 \div 4)
              [] OTHER -> (v3 % 4) * 64 + v4
  IN  [i \in 1..((3 * m) \div 4) |-> Chr(byte(i))]

---------------------------------------------------------------------------
(* JavaScript strings                                                      *)

WhiteSpace == {" ", "\t", "\n", "\r"}

\* String.prototype.startsWith
StartsWith(s, prefix) ==
  Len(s) >= Len(prefix) /\ SubSeq(s, 1, Len(prefix)) = prefix

\* String.prototype.indexOf for one character: 0-based, -1 when absent
IndexOf(s, c) ==
  IF \E i \in DOMAIN s : s[i] = c
    THEN (CHOOSE i \in DOMAIN s : s[i] = c /\ \A j \in 1..(i - 1) : s[j] # c) - 1
    ELSE -1

\* String.prototype.slice(from, to), 0-based, to exclusive
Slice(s, from, to) == SubSeq(s, from + 1, to)

\* String.prototype.trim
Trim(s) ==
  IF \A i \in DOMAIN s : s[i] \in WhiteSpace THEN <<>>
  ELSE LET a == CHOOSE i \in DOMAIN s :
                  s[i] \notin WhiteSpace /\ \A j \in 1..(i - 1) : s[j] \in WhiteSpace
           b == CHOOSE i \in DOMAIN s :
                  s[i] \notin WhiteSpace /\ \A j \in (i + 1)..Len(s) : s[j] \in WhiteSpace
       IN  SubSeq(s, a, b)

\* String.prototype.split for a one-character separator
RECURSIVE Split(_, _)
Split(s, sep) ==
  LET i == IndexOf(s, sep)
  IN  IF i = -1 THEN <<s>>
      ELSE <<Slice(s, 0, i)>> \o Split(Slice(s, i + 1, Len(s)), sep)

\* String.prototype.toLowerCase on the letters the flag can hold
Upper == <<"A", "B", "C", "D", "E", "F", "G", "H", "I", "J", "K", "L", "M",
           "N", "O", "P", "Q", "R", "S", "T", "U", "V", "W", "X", "Y", "Z">>
Lower == <<"a", "b", "c", "d", "e", "f", "g", "h", "i", "j", "k", "l", "m",
           "n", "o", "p", "q", "r", "s", "t", "u", "v", "w", "x", "y", "z">>
ToLowerCase(s) ==
  [i \in DOMAIN s |->
     IF \E k \in DOMAIN Upper : Upper[k] = s[i]
       THEN Lower[CHOOSE k \in DOMAIN Upper : Upper[k] = s[i]]
       ELSE s[i]]

---------------------------------------------------------------------------
(* JavaScript values, tagged by kind                                       *)

Undefined == [t |-> "undefined"]
JNull     == [t |-> "null"]
JStr(s)   == [t |-> "string", v |-> s]
JNum(n)   == [t |-> "number", v |-> n]
JBool(b)  == [t |-> "boolean", v |-> b]
JObj(f)   == [t |-> "object", v |-> f]      \* f maps property names to values
JArr(a)   == [t |-> "array", v |-> a]

\* ToBoolean: what `!x` and `x || y` test
Truthy(x) ==
  CASE x.t = "undefined" -> FALSE
    [] x.t = "null"      -> FALSE
    [] x.t = "string"    -> x.v # <<>>
    [] x.t = "number"    -> x.v # 0
    [] x.t = "boolean"   -> x.v
    [] OTHER             -> TRUE

\* x.name for a value that is neither null nor undefined (those throw)
Get(x, name) ==
  IF x.t = "object" /\ name \in DOMAIN x.v THEN x.v[name] ELSE Undefined

Digits == <<"0", "1", "2", "3", "4", "5", "6", "7", "8", "9">>
DigitSet == {Digits[i] : i \in DOMAIN Digits}
DigitValue(c) == (CHOOSE i \in DOMAIN Digits : Digits[i] = c) - 1

\* Number to string, for the integers the model holds
RECURSIVE NumToStr(_)
NumToStr(n) ==
  IF n < 0 THEN <<"-">> \o NumToStr(0 - n)
  ELSE IF n < 10 THEN <<Digits[n + 1]>>
  ELSE Append(NumToStr(n \div 10), Digits[(n % 10) + 1])

\* String(x)
String(x) ==
  CASE x.t = "string"    -> x.v
    [] x.t = "number"    -> NumToStr(x.v)
    [] x.t = "undefined" -> <<"u", "n", "d", "e", "f", "i", "n", "e", "d">>
    [] x.t = "null"      -> <<"n", "u", "l", "l">>
    [] x.t = "boolean"   -> IF x.v THEN <<"t", "r", "u", "e">>
                                   ELSE <<"f", "a", "l", "s", "e">>
    [] OTHER             -> <<"[", "o", "b", "j", "e", "c", "t", " ",
                              "O", "b", "j", "e", "c", "t", "]">>

---------------------------------------------------------------------------
(* JSON.stringify, for an object whose properties are strings and numbers  *)

\* a string literal: quotes and backslashes are escaped
RECURSIVE Quote(_)
Quote(s) ==
  IF s = <<>> THEN <<>>
  ELSE LET c == Head(s)
           e == CASE c = "\"" -> <<"\\", "\"">>
                  [] c = "\\" -> <<"\\", "\\">>
                  [] c = "\n" -> <<"\\", "n">>
                  [] c = "\r" -> <<"\\", "r">>
                  [] c = "\t" -> <<"\\", "t">>
                  [] OTHER    -> <<c>>
       IN  e \o Quote(Tail(s))

StringifyScalar(x) ==
  CASE x.t = "string"  -> <<"\"">> \o Quote(x.v) \o <<"\"">>
    [] x.t = "number"  -> NumToStr(x.v)
    [] x.t = "boolean" -> IF x.v THEN <<"t", "r", "u", "e">> ELSE <<"f", "a", "l", "s", "e">>
    [] OTHER           -> <<"n", "u", "l", "l">>

\* the properties in insertion order; an undefined property is left out
RECURSIVE StringifyMembers(_, _, _)
StringifyMembers(obj, keys, first) ==
  IF keys = <<>> THEN <<>>
  ELSE LET k == Head(keys)
           x == Get(obj, k)
       IN  IF x.t = "undefined" THEN StringifyMembers(obj, Tail(keys), first)
           ELSE (IF first THEN <<>> ELSE <<",">>)
                \o <<"\"">> \o Quote(k) \o <<"\"", ":">> \o StringifyScalar(x)
                \o StringifyMembers(obj, Tail(keys), FALSE)

JSONstringify(obj, keys) == <<"{">> \o StringifyMembers(obj, keys, TRUE) \o <<"}">>

---------------------------------------------------------------------------
(* JSON.parse: a recursive-descent parser.  A result is [ok, v, pos]; ok   *)
(* FALSE is the SyntaxError JSON.parse throws.  Numbers are integers       *)
(* (no fraction, no exponent) and \u escapes are not read: the texts the   *)
(* model parses hold neither.                                              *)

Fail == [ok |-> FALSE]
Done(v, pos) == [ok |-> TRUE, v |-> v, pos |-> pos]

At(s, i) == IF i >= 1 /\ i <= Len(s) THEN s[i] ELSE "EOF"

RECURSIVE SkipWs(_, _)
SkipWs(s, i) == IF At(s, i) \in WhiteSpace THEN SkipWs(s, i + 1) ELSE i

\* s[i] is the character after the opening quote
RECURSIVE ParseChars(_, _, _)
ParseChars(s, i, acc) ==
  LET c == At(s, i)
  IN  CASE c = "\"" -> Done(JStr(acc), i + 1)
        [] c = "\\" ->
             LET e == At(s, i + 1)
             IN  CASE e \in {"\"", "\\", "/"} -> ParseChars(s, i + 2, Append(acc, e))
                   [] e = "n" -> ParseChars(s, i + 2, Append(acc, "\n"))
                   [] e = "r" -> ParseChars(s, i + 2, Append(acc, "\r"))
                   [] e = "t" -> ParseChars(s, i + 2, Append(acc, "\t"))
                   [] e \in {"b", "f"} -> ParseChars(s, i + 2, Append(acc, "CTRL"))
                   [] OTHER -> Fail
        [] c \in {"EOF", "CTRL", "\t", "\n", "\r"} -> Fail
        [] OTHER -> ParseChars(s, i + 1, Append(acc, c))

RECURSIVE ParseDigits(_, _, _)
ParseDigits(s, i, acc) ==
  IF At(s, i) \in DigitSet
    THEN ParseDigits(s, i + 1, acc * 10 + DigitValue(At(s, i)))
    ELSE Done(acc, i)

\* -? ( 0 | [1-9][0-9]* )
ParseNumber(s, i) ==
  LET neg == At(s, i) = "-"
      j == IF neg THEN i + 1 ELSE i
      d == ParseDigits(s, j, 0)
  IN  IF At(s, j) \notin DigitSet THEN Fail
      ELSE IF At(s, j) = "0" /\ d.pos > j + 1 THEN Fail
      ELSE IF At(s, d.pos) \in {".", "e", "E"} THEN Fail
      ELSE Done(JNum(IF neg THEN 0 - d.v ELSE d.v), d.pos)

ParseLiteral(s, i, word, v) ==
  IF i + Len(word) - 1 <= Len(s) /\ SubSeq(s, i, i + Len(word) - 1) = word
    THEN Done(v, i + Len(word))
    ELSE Fail

RECURSIVE ParseValue(_, _), ParseMembers(_, _, _), ParseElements(_, _, _)

\* s[i] is the first character of a value
ParseValue(s, i) ==
  LET c == At(s, i)
  IN  CASE c = "{" ->
             LET j == SkipWs(s, i + 1)
             IN  IF At(s, j) = "}" THEN Done(JObj(<<>>), j + 1)
                 ELSE ParseMembers(s, j, <<>>)
        [] c = "[" ->
             LET j == SkipWs(s, i + 1)
             IN  IF At(s, j) = "]" THEN Done(JArr(<<>>), j + 1)
                 ELSE ParseElements(s, j, <<>>)
        [] c = "\"" -> ParseChars(s, i + 1, <<>>)
        [] c = "-" \/ c \in DigitSet -> ParseNumber(s, i)
        [] c = "t" -> ParseLiteral(s, i, <<"t", "r", "u", "e">>, JBool(TRUE))
        [] c = "f" -> ParseLiteral(s, i, <<"f", "a", "l", "s", "e">>, JBool(FALSE))
        [] c = "n" -> ParseLiteral(s, i, <<"n", "u", "l", "l">>, JNull)
        [] OTHER -> Fail

\* s[i] is the opening quote of a property name; a repeated name overrides
ParseMembers(s, i, acc) ==
  IF At(s, i) # "\"" THEN Fail
  ELSE LET k == ParseChars(s, i + 1, <<>>)
       IN  IF ~k.ok THEN Fail
           ELSE LET c == SkipWs(s, k.pos)
                IN  IF At(s, c) # ":" THEN Fail
                    ELSE LET x == ParseValue(s, SkipWs(s, c + 1))
                         IN  IF ~x.ok THEN Fail
                             ELSE LET j == SkipWs(s, x.pos)
                                      obj == (k.v.v :> x.v) @@ acc
                                  IN  CASE At(s, j) = "}" -> Done(JObj(obj), j + 1)
                                        [] At(s, j) = "," ->
                                             ParseMembers(s, SkipWs(s, j + 1), obj)
                                        [] OTHER -> Fail

ParseElements(s, i, acc) ==
  LET x == ParseValue(s, i)
  IN  IF ~x.ok THEN Fail
      ELSE LET j == SkipWs(s, x.pos)
           IN  CASE At(s, j) = "]" -> Done(JArr(Append(acc, x.v)), j + 1)
                 [] At(s, j) = "," -> ParseElements(s, SkipWs(s, j + 1), Append(acc, x.v))
                 [] OTHER -> Fail

\* [ok |-> TRUE, v |-> value], or [ok |-> FALSE] for a thrown SyntaxError
JSONparse(text) ==
  LET x == ParseValue(text, SkipWs(text, 1))
  IN  IF x.ok /\ SkipWs(text, x.pos) = Len(text) + 1
        THEN [ok |-> TRUE, v |-> x.v]
        ELSE Fail

---------------------------------------------------------------------------
(* Configuration: process.env.X || ''                                      *)

EnvOr(name) == IF Truthy(env[name]) THEN env[name].v ELSE <<>>

\* Math.floor(Date.now() / 1000)
NowSec == clock \div 1000

---------------------------------------------------------------------------
(* The session token                                                       *)

\* a digest that takes no key (createHash in place of createHmac)
UnkeyedSha256(key, msg) == <<"_">> \o msg

\* crypto.createHmac('sha256', key).update(msg).digest('base64url').
\* HMAC is taken as a perfect keyed hash: the digest is fixed by the key and
\* the message and no two (key, message) pairs share one.  Keys hold no '_',
\* so writing key, '_', message is such a digest over the base64url alphabet.
HmacSha256(key, msg) == key \o <<"_">> \o msg

K_sub   == <<"s", "u", "b">>
K_email == <<"e", "m", "a", "i", "l">>
K_exp   == <<"e", "x", "p">>
K_name  == <<"n", "a", "m", "e">>
K_aud   == <<"a", "u", "d">>
K_id_token == <<"i", "d", "_", "t", "o", "k", "e", "n">>

\* 7 * 24 * 60 * 60
SessionSeconds == 604800

\* index.ts 114: { sub, email, exp, name: String(info.name || '') }
Payload(sub, email, exp, name) ==
  JObj((K_sub :> JStr(sub)) @@ (K_email :> JStr(email))
       @@ (K_exp :> JNum(exp)) @@ (K_name :> JStr(name)))

\* index.ts 115-118: the token of a payload under a secret
SignToken(b64, secret) == b64 \o <<".">> \o HmacSha256(secret, b64)

\* the signature taken over the JSON text, not over its encoding
MintTokenSignsJson(payload, secret) ==
  LET json == JSONstringify(payload, <<K_sub, K_email, K_exp, K_name>>)
  IN  Base64UrlEncode(json) \o <<".">> \o HmacSha256(secret, json)

MintToken(payload, secret) ==
  LET json == JSONstringify(payload, <<K_sub, K_email, K_exp, K_name>>)
      b64 == Base64UrlEncode(json)
  IN  SignToken(b64, secret)

CookieName == <<"a", "d", "m", "i", "n", "_", "s", "e", "s", "s", "i", "o", "n">>

\* parseCookies: the header's name=value pairs, a later pair overriding
RECURSIVE CookiePairs(_, _)
CookiePairs(parts, out) ==
  IF parts = <<>> THEN out
  ELSE LET p == Head(parts)
           i == IndexOf(p, "=")
           k == Trim(Slice(p, 0, i))
           v == Trim(Slice(p, i + 1, Len(p)))
       IN  IF i > -1 /\ k # <<>>
             THEN CookiePairs(Tail(parts), (k :> v) @@ out)
             ELSE CookiePairs(Tail(parts), out)

parseCookies(header) ==
  LET h == IF Truthy(header) THEN header.v ELSE <<>>
  IN  CookiePairs(Split(h, ";"), <<>>)

\* index.ts 147: !secret
NoSecretNeverChecked(secret) == FALSE
NoSecret(secret) == secret = <<>>

\* index.ts 149-151: parts.length !== 2, !b64 || !sig
TwoPartsAtLeast(parts) == Len(parts) >= 2 /\ parts[1] # <<>> /\ parts[2] # <<>>
TwoParts(parts) == Len(parts) = 2 /\ parts[1] # <<>> /\ parts[2] # <<>>

\* index.ts 153: sig !== expectedSig
SigMatchesButLast(sig, expectedSig) ==
  /\ Len(sig) = Len(expectedSig)
  /\ SubSeq(sig, 1, Len(sig) - 1) = SubSeq(expectedSig, 1, Len(sig) - 1)
SigMatches(sig, expectedSig) == sig = expectedSig

\* index.ts 153: how many characters the !== of two strings looks at: none
\* when the lengths differ, else those up to the first one that differs
CompareSteps(sig, expectedSig) ==
  IF Len(sig) # Len(expectedSig) THEN 0
  ELSE IF sig = expectedSig THEN Len(sig)
  ELSE CHOOSE i \in DOMAIN sig :
         /\ sig[i] # expectedSig[i]
         /\ \A j \in 1..(i - 1) : sig[j] = expectedSig[j]

\* index.ts 158: payload.exp < Math.floor(Date.now() / 1000)
ExpiredNeverChecked(exp, now) == FALSE
ExpiredAtExp(exp, now) == exp <= now
Expired(exp, now) == exp < now

\* an exception on its way up the stack
Threw == [t |-> "threw"]

\* index.ts 157-159, for what JSON.parse made of the text: the payload,
\* null, or the exception of JSON.parse (SyntaxError) or of null.exp
\* (TypeError)
CheckPayload(parsed) ==
  IF ~parsed.ok THEN Threw
  ELSE IF parsed.v.t = "null" THEN Threw
  ELSE LET exp == Get(parsed.v, K_exp)
       IN  IF ~Truthy(exp) \/ exp.t # "number" THEN JNull
           ELSE IF Expired(exp.v, NowSec) THEN JNull
           ELSE parsed.v

\* index.ts 155-159, the body of the try block
DecodePayload(b64) == CheckPayload(JSONparse(Base64UrlDecode(b64)))

\* a try block without its catch
Uncaught(outcome) == outcome

\* index.ts 154, 160-162: try { ... } catch { return null }
Catch(outcome) == IF outcome = Threw THEN JNull ELSE outcome

\* a verifier that looks the cookie up in a store of live sessions, which
\* holds the cookie of the last login until a logout empties it
readSessionFromStore(cookieHeader) ==
  IF /\ jar.t = "string"
     /\ jar.v # <<>>
     /\ minted.token # <<>>
     /\ cookieHeader = JStr(CookieName \o <<"=">> \o jar.v)
    THEN minted.payload
    ELSE JNull

\* readSession: the payload of the request's admin_session cookie, or null
readSession(cookieHeader) ==
  LET cookies == parseCookies(cookieHeader)
      token == IF CookieName \in DOMAIN cookies THEN cookies[CookieName] ELSE <<>>
      secret == EnvOr("ADMIN_JWT_SECRET")
      parts == Split(token, ".")
  IN  IF token = <<>> THEN JNull
      ELSE IF NoSecret(secret) THEN JNull
      ELSE IF ~TwoParts(parts) THEN JNull
      ELSE LET b64 == parts[1]
               sig == parts[2]
           IN  IF ~SigMatches(sig, HmacSha256(secret, b64)) THEN JNull
               ELSE Catch(DecodePayload(b64))

---------------------------------------------------------------------------
(* URL encodings                                                           *)

Hex == <<"0", "1", "2", "3", "4", "5", "6", "7", "8", "9", "A", "B", "C", "D", "E", "F">>
HexSet == {Hex[i] : i \in DOMAIN Hex}
HexValue(c) == (CHOOSE i \in DOMAIN Hex : Hex[i] = c) - 1

AlphaNum == B64Set \ {"-", "_"}

PercentEncode(c) == <<"%", Hex[(Ord(c) \div 16) + 1], Hex[(Ord(c) % 16) + 1]>>

\* the strings of ss joined, by halves
RECURSIVE Concat(_)
Concat(ss) ==
  IF ss = <<>> THEN <<>>
  ELSE IF Len(ss) = 1 THEN ss[1]
  ELSE Concat(SubSeq(ss, 1, Len(ss) \div 2)) \o Concat(SubSeq(ss, (Len(ss) \div 2) + 1, Len(ss)))

\* URLSearchParams serialisation of one name or value
FormEncode(s) ==
  Concat([i \in DOMAIN s |->
            IF s[i] \in AlphaNum \cup {"*", "-", ".", "_"} THEN <<s[i]>>
            ELSE IF s[i] = " " THEN <<"+">>
            ELSE PercentEncode(s[i])])

\* encodeURIComponent, which res.cookie applies to the cookie's value
encodeURIComponent(s) ==
  Concat([i \in DOMAIN s |->
            IF s[i] \in AlphaNum \cup {"-", "_", ".", "!", "~", "*", "'", "(", ")"}
              THEN <<s[i]>>
              ELSE PercentEncode(s[i])])

\* the reading of a query-string component: '+' is a space, %XX a byte
RECURSIVE FormDecode(_)
FormDecode(s) ==
  IF s = <<>> THEN <<>>
  ELSE IF Head(s) = "+" THEN <<" ">> \o FormDecode(Tail(s))
  ELSE IF Head(s) = "%" /\ Len(s) >= 3 /\ s[2] \in HexSet /\ s[3] \in HexSet
    THEN <<Chr(16 * HexValue(s[2]) + HexValue(s[3]))>> \o FormDecode(SubSeq(s, 4, Len(s)))
  ELSE <<Head(s)>> \o FormDecode(Tail(s))

\* new URLSearchParams({...}).toString(), for a sequence of <<name, value>>
RECURSIVE URLSearchParams(_)
URLSearchParams(pairs) ==
  IF pairs = <<>> THEN <<>>
  ELSE FormEncode(Head(pairs)[1]) \o <<"=">> \o FormEncode(Head(pairs)[2])
       \o (IF Len(pairs) > 1 THEN <<"&">> ELSE <<>>)
       \o URLSearchParams(Tail(pairs))

\* what the receiver of `url` reads as its query parameter `name`
QueryParam(url, name) ==
  LET q == Slice(url, IndexOf(url, "?") + 1, Len(url))
      parts == Split(q, "&")
      key(p) == FormDecode(IF IndexOf(p, "=") = -1 THEN p ELSE Slice(p, 0, IndexOf(p, "=")))
      val(p) == FormDecode(IF IndexOf(p, "=") = -1 THEN <<>>
                           ELSE Slice(p, IndexOf(p, "=") + 1, Len(p)))
  IN  IF \E i \in DOMAIN parts : key(parts[i]) = name
        THEN JStr(val(parts[CHOOSE i \in DOMAIN parts :
                              key(parts[i]) = name
                              /\ \A j \in 1..(i - 1) : key(parts[j]) # name]))
        ELSE Undefined

---------------------------------------------------------------------------
(* Responses.  A response carries the request it answers and, for the      *)
(* callback, the outbound calls the handler made.                          *)

NoResp == [route |-> "none"]

NoCalls == <<>>

\* session is what readSession returned to the handler (me only)
Response(route, req, status, body, location, cookies, calls) ==
  [route |-> route, req |-> req, status |-> status, body |-> body,
   location |-> location, cookies |-> cookies, calls |-> calls,
   session |-> Undefined]

\* (process.env.NODE_ENV || '').toLowerCase() === 'production'
Secure == ToLowerCase(EnvOr("NODE_ENV")) = <<"p", "r", "o", "d", "u", "c", "t", "i", "o", "n">>

\* index.ts 120: res.cookie('admin_session', token, { httpOnly: true,
\* sameSite: 'lax', secure, path: '/' })
SessionCookie(token) ==
  [name |-> <<"a", "d", "m", "i", "n", "_", "s", "e", "s", "s", "i", "o", "n">>, value |-> token, httpOnly |-> TRUE, sameSite |-> "lax",
   secure |-> Secure, path |-> <<"/">>, maxAge |-> Undefined]

\* a clearing cookie scoped to the auth routes only
ClearedCookieOtherPath ==
  [name |-> <<"a", "d", "m", "i", "n", "_", "s", "e", "s", "s", "i", "o", "n">>, value |-> <<>>, httpOnly |-> TRUE, sameSite |-> "lax",
   secure |-> ToLowerCase(EnvOr("NODE_ENV")) = <<"p", "r", "o", "d", "u", "c", "t", "i", "o", "n">>,
   path |-> <<"/", "a", "p", "i", "/", "a", "u", "t", "h">>, maxAge |-> JNum(0)]

\* index.ts 185-186: secure computed a second time, and
\* res.cookie('admin_session', '', { httpOnly: true, sameSite: 'lax',
\* secure, path: '/', maxAge: 0 })
ClearedCookie ==
  [name |-> <<"a", "d", "m", "i", "n", "_", "s", "e", "s", "s", "i", "o", "n">>, value |-> <<>>, httpOnly |-> TRUE, sameSite |-> "lax",
   secure |-> ToLowerCase(EnvOr("NODE_ENV")) = <<"p", "r", "o", "d", "u", "c", "t", "i", "o", "n">>,
   path |-> <<"/">>, maxAge |-> JNum(0)]

---------------------------------------------------------------------------
(* GET /api/auth/google/start                                              *)

AdminPath == <<"/", "a", "d", "m", "i", "n">>

AuthEndpoint == <<"h", "t", "t", "p", "s", ":", "/", "/", "a", "c", "c", "o", "u", "n", "t", "s", ".", "g", "o", "o", "g", "l", "e", ".", "c", "o", "m", "/", "o", "/", "o", "a", "u", "t", "h", "2", "/", "v", "2", "/", "a", "u", "t", "h", "?">>

\* index.ts 48: from.startsWith('/') ? from : ''
safeFromUnchecked(from) == from
safeFrom(from) == IF StartsWith(from, <<"/">>) THEN from ELSE <<>>

\* index.ts 47-49
StartState(query) ==
  LET from == IF query.from.t = "string" THEN query.from.v ELSE <<>>
  IN  IF safeFrom(from) # <<>> THEN safeFrom(from) ELSE AdminPath

\* index.ts 50: !clientId || !redirectUri
StartConfigured(clientId, redirectUri) == clientId # <<>> /\ redirectUri # <<>>

StartResponse(query) ==
  LET clientId == EnvOr("GOOGLE_CLIENT_ID")
      redirectUri == EnvOr("GOOGLE_REDIRECT_URI")
      state == StartState(query)
      params == URLSearchParams(<<
                  <<<<"r", "e", "s", "p", "o", "n", "s", "e", "_", "t", "y", "p", "e">>, <<"c", "o", "d", "e">>>>,
                  <<<<"c", "l", "i", "e", "n", "t", "_", "i", "d">>, clientId>>,
                  <<<<"r", "e", "d", "i", "r", "e", "c", "t", "_", "u", "r", "i">>, redirectUri>>,
                  <<<<"s", "c", "o", "p", "e">>, <<"o", "p", "e", "n", "i", "d", " ", "e", "m", "a", "i", "l", " ", "p", "r", "o", "f", "i", "l", "e">>>>,
                  <<<<"s", "t", "a", "t", "e">>, state>>,
                  <<<<"a", "c", "c", "e", "s", "s", "_", "t", "y", "p", "e">>, <<"o", "f", "f", "l", "i", "n", "e">>>>,
                  <<<<"p", "r", "o", "m", "p", "t">>, <<"c", "o", "n", "s", "e", "n", "t">>>> >>)
  IN  IF ~StartConfigured(clientId, redirectUri)
        THEN Response("start", query, 500, [error |-> "Google OAuth not configured"],
                      Undefined, <<>>, NoCalls)
        ELSE Response("start", query, 302, [error |-> ""],
                      JStr(AuthEndpoint \o params), <<>>, NoCalls)

---------------------------------------------------------------------------
(* GET /api/auth/google/callback                                           *)

Idle == [pc |-> "idle"]

\* x || ''
OrEmpty(x) == IF Truthy(x) THEN x ELSE JStr(<<>>)

\* the callback's test without the client secret, which start leaves out
CallbackConfiguredAsStart(code, clientId, clientSecret, redirectUri, adminJwtSecret) ==
  Truthy(code) /\ clientId # <<>> /\ redirectUri # <<>> /\ adminJwtSecret # <<>>

\* index.ts 74: every one of the five must be non-empty
CallbackConfigured(code, clientId, clientSecret, redirectUri, adminJwtSecret) ==
  /\ Truthy(code)
  /\ clientId # <<>>
  /\ clientSecret # <<>>
  /\ redirectUri # <<>>
  /\ adminJwtSecret # <<>>

\* index.ts 103: String(info.aud) !== clientId
AudienceNeverChecked(info, clientId) == FALSE
AudienceMismatch(info, clientId) == String(Get(info, K_aud)) # clientId

\* a callback that follows no state at all
destAlwaysAdmin(state) == AdminPath

\* index.ts 121: typeof state === 'string' && state.startsWith('/') ? state : '/admin'
dest(state) ==
  IF state.t = "string" /\ StartsWith(state.v, <<"/">>) THEN state.v ELSE AdminPath

\* an error answered after res.cookie has run
CallbackErrorWithCookie(c, status, error) ==
  Response("callback", c.req, status, [error |-> error], Undefined,
           <<SessionCookie(<<"x">>)>>, c.calls)

\* a handler without its try/catch: what it would have answered 500 is
\* left to the error handler of the application
CallbackErrorUnhandled(c, status, error) ==
  IF status = 500
    THEN Response("callback", c.req, 500, [error |-> "Internal Server Error"],
                  Undefined, <<>>, c.calls)
    ELSE Response("callback", c.req, status, [error |-> error], Undefined, <<>>, c.calls)

\* index.ts 75, 93, 100, 104, 110, 124: res.status(status).json({ error })
CallbackError(c, status, error) ==
  Response("callback", c.req, status, [error |-> error], Undefined, <<>>, c.calls)

\* index.ts 91-97, once the token endpoint has answered with r
TokenFailure(r) ==
  CASE r.kind = "reject" -> 500            \* fetch rejected
    [] ~r.body.ok         -> 500           \* tokenRes.json() threw
    [] ~r.ok              -> 401
    [] r.body.v.t = "null" -> 500          \* tokenJson.id_token threw
    [] OTHER              -> 0

\* the checks of the assertion without the one of its audience
InfoFailureAnyAudience(r, clientId) ==
  CASE r.kind = "reject" -> 500
    [] ~r.body.ok         -> 500
    [] ~r.ok              -> 401
    [] r.body.v.t = "null" -> 500
    [] String(OrEmpty(Get(r.body.v, K_email))) = <<>> -> 401
    [] String(OrEmpty(Get(r.body.v, K_sub))) = <<>>   -> 401
    [] OTHER              -> 0

\* the checks of the assertion without the one of email and sub
InfoFailureAnyUser(r, clientId) ==
  CASE r.kind = "reject" -> 500
    [] ~r.body.ok         -> 500
    [] ~r.ok              -> 401
    [] r.body.v.t = "null" -> 500
    [] AudienceMismatch(r.body.v, clientId) -> 401
    [] OTHER              -> 0

\* index.ts 98-112, once tokeninfo has answered with r: the status of the
\* failure, or 0 when the assertion passes every check
InfoFailure(r, clientId) ==
  CASE r.kind = "reject" -> 500
    [] ~r.body.ok         -> 500
    [] ~r.ok              -> 401
    [] r.body.v.t = "null" -> 500          \* info.aud threw
    [] AudienceMismatch(r.body.v, clientId) -> 401
    [] String(OrEmpty(Get(r.body.v, K_email))) = <<>> -> 401
    [] String(OrEmpty(Get(r.body.v, K_sub))) = <<>>   -> 401
    [] OTHER              -> 0

\* index.ts 107-114: the payload minted from an assertion
InfoPayload(info) ==
  Payload(String(OrEmpty(Get(info, K_sub))), String(OrEmpty(Get(info, K_email))),
          NowSec + SessionSeconds, String(OrEmpty(Get(info, K_name))))

\* index.ts 113-122: the response of the success path
CallbackSuccess(c, info) ==
  LET token == MintToken(InfoPayload(info), c.adminJwtSecret)
  IN  Response("callback", c.req, 302, [error |-> ""], JStr(dest(c.state)),
               <<SessionCookie(token)>>, c.calls)

---------------------------------------------------------------------------
(* GET /api/auth/me and POST /api/auth/logout                              *)

\* the static token compared without asking whether one is configured
headerOkUnconfigured(headerToken, expected) == headerToken = expected

\* index.ts 169: expected && headerToken === expected
headerOk(headerToken, expected) == expected # <<>> /\ headerToken = expected

DevAdmin ==
  [email |-> JStr(<<"d", "e", "v", "-", "a", "d", "m", "i", "n", "@", "l", "o", "c", "a", "l">>), name |-> JStr(<<"D", "e", "v", " ", "A", "d", "m", "i", "n">>),
   sub |-> JStr(<<"d", "e", "v", "-", "a", "d", "m", "i", "n">>)]

\* a 401 that tells a request without a cookie from one with a bad cookie
MeRejectedNamesCause(req) ==
  Response("me", req, 401,
           IF req.cookie = Undefined THEN [authenticated |-> FALSE]
             ELSE [authenticated |-> FALSE, error |-> "Invalid session"],
           Undefined, <<>>, NoCalls)

\* index.ts 172: res.status(401).json({ authenticated: false })
MeRejected(req) ==
  Response("me", req, 401, [authenticated |-> FALSE], Undefined, <<>>, NoCalls)

\* index.ts 207-214: what Express answers when a handler throws
ErrorHandler(route, req) ==
  Response(route, req, 500, [error |-> "Internal Server Error"], Undefined, <<>>,
           NoCalls)

\* index.ts 167-181, with the session readSession returned
MeAnswer(req, session) ==
  LET headerToken == OrEmpty(req.adminToken).v
      expected == EnvOr("ADMIN_API_TOKEN")
      answer ==
        IF session = Threw
          THEN ErrorHandler("me", req)
        ELSE IF ~Truthy(session) /\ ~headerOk(headerToken, expected)
          THEN MeRejected(req)
        ELSE IF Truthy(session)
          THEN Response("me", req, 200,
                        [authenticated |-> TRUE,
                         user |-> [email |-> Get(session, K_email),
                                   name |-> Get(session, K_name),
                                   sub |-> Get(session, K_sub)]],
                        Undefined, <<>>, NoCalls)
        ELSE Response("me", req, 200, [authenticated |-> TRUE, user |-> DevAdmin],
                      Undefined, <<>>, NoCalls)
  IN  [answer EXCEPT !.session = session]

MeResponse(req) == MeAnswer(req, readSession(req.cookie))

\* middleware/auth.js, the guard of app.use('/api/admin', ...) at index.ts
\* 40: the request passes to the admin routes (status 0: the guard itself
\* answers nothing) if the session cookie or the static token authenticates
\* it, and is answered 401 otherwise
AdminAnswer(req, session) ==
  LET headerToken == OrEmpty(req.adminToken).v
      expected == EnvOr("ADMIN_API_TOKEN")
      answer ==
        IF session = Threw
          THEN ErrorHandler("admin", req)
        ELSE IF Truthy(session) \/ headerOk(headerToken, expected)
          THEN Response("admin", req, 0, [next |-> TRUE], Undefined, <<>>, NoCalls)
          ELSE Response("admin", req, 401, [error |-> "Unauthorized"], Undefined, <<>>, NoCalls)
  IN  [answer EXCEPT !.session = session]

requireAdmin(req) == AdminAnswer(req, readSession(req.cookie))

\* a logout response without its res.cookie
LogoutWithoutCookie(req) ==
  Response("logout", req, 200, [ok |-> TRUE], Undefined, <<>>, NoCalls)

\* index.ts 184-188
LogoutResponse(req) ==
  Response("logout", req, 200, [ok |-> TRUE], Undefined,
           <<ClearedCookie>>, NoCalls)

---------------------------------------------------------------------------
(* Bounds and the values requests and configurations are drawn from        *)

MaxTicks == 2        \* how many times the clock advances

StartClock == 1500   \* Date.now() at the start, in milliseconds
TickMs == 500        \* a short advance of the clock

\* a long advance: the lifetime of a session, in milliseconds
WeekMs == SessionSeconds * 1000

ClientId     == <<"c", "i", "d">>
ClientSecret == <<"c", "s">>
RedirectUri  == <<"h", "/", "c", "b">>
SecretA      == <<"k", "A">>
SecretB      == <<"k", "B">>
ApiToken     == <<"t", "o", "k">>

Config(clientId, clientSecret, redirectUri, secret, apiToken, nodeEnv) ==
  [GOOGLE_CLIENT_ID |-> clientId, GOOGLE_CLIENT_SECRET |-> clientSecret,
   GOOGLE_REDIRECT_URI |-> redirectUri, ADMIN_JWT_SECRET |-> secret,
   ADMIN_API_TOKEN |-> apiToken, NODE_ENV |-> nodeEnv]

FullConfig(secret) ==
  Config(JStr(ClientId), JStr(ClientSecret), JStr(RedirectUri), secret,
         JStr(ApiToken), Undefined)

\* configurations of the OAuth flow: complete, each variable missing in
\* turn (unset or empty), and production mode
FlowEnvs ==
  { FullConfig(JStr(SecretA)),
    [FullConfig(JStr(SecretA)) EXCEPT !.GOOGLE_CLIENT_ID = Undefined],
    [FullConfig(JStr(SecretA)) EXCEPT !.GOOGLE_CLIENT_SECRET = JStr(<<>>)],
    [FullConfig(JStr(SecretA)) EXCEPT !.GOOGLE_REDIRECT_URI = Undefined],
    FullConfig(Undefined),
    [FullConfig(JStr(SecretB)) EXCEPT !.NODE_ENV = JStr(<<"P", "r", "o", "d", "u", "c", "t", "i", "o", "n">>)] }

\* configurations of the session check: two secrets, no secret (unset or
\* empty), no static token
SessionEnvs ==
  { FullConfig(JStr(SecretA)),
    FullConfig(JStr(SecretB)),
    FullConfig(Undefined),
    FullConfig(JStr(<<>>)),
    [FullConfig(JStr(SecretA)) EXCEPT !.ADMIN_API_TOKEN = Undefined] }

\* configurations of the guard and of logout: a static token that is set,
\* unset or empty, and production mode or not
GuardEnvs ==
  { FullConfig(JStr(SecretA)),
    [FullConfig(JStr(SecretA)) EXCEPT !.ADMIN_API_TOKEN = Undefined],
    [FullConfig(JStr(SecretA)) EXCEPT !.ADMIN_API_TOKEN = JStr(<<>>),
                                      !.NODE_ENV = JStr(<<"p", "r", "o", "d", "u", "c", "t", "i", "o", "n">>)],
    [FullConfig(JStr(SecretA)) EXCEPT !.NODE_ENV = JStr(<<"P", "R", "O", "D", "U", "C", "T", "I", "O", "N">>)],
    [FullConfig(JStr(SecretA)) EXCEPT !.NODE_ENV = JStr(<<"d", "e", "v", "e", "l", "o", "p", "m", "e", "n", "t">>)] }

\* req.query.from / req.query.state: a path (with characters a query string
\* escapes), a protocol-relative URL, an absolute URL, nothing, a repeated
\* parameter
PathP    == <<"/", "p", "?", "a", "=", "b", " ", "c", "&", "d">>
OtherOrigin == <<"/", "/", "e">>
Absolute == <<"h", ":", "/", "/", "e", "/", "x">>
Froms == { Undefined, JStr(<<>>), JStr(PathP), JStr(OtherOrigin), JStr(Absolute),
           JArr(<<JStr(PathP)>>) }

Codes == { Undefined, JStr(<<>>), JStr(<<"c">>) }

\* an answer of an outbound call: the fetch rejects, or a response whose
\* body is JSON (body.ok) or not
Reject == [kind |-> "reject"]
Answer(ok, v) == [kind |-> "response", ok |-> ok, body |-> [ok |-> TRUE, v |-> v]]
NotJson(ok) == [kind |-> "response", ok |-> ok, body |-> [ok |-> FALSE]]

IdToken == <<"t">>

TokenResults ==
  { Reject, NotJson(TRUE), NotJson(FALSE),
    Answer(FALSE, JObj(<<"e", "r", "r", "o", "r">> :> JStr(<<"x">>))),
    Answer(TRUE, JNull),
    Answer(TRUE, JObj(<<>>)),
    Answer(TRUE, JObj(K_id_token :> JStr(IdToken))) }

Assertion(aud, sub, email, name) ==
  JObj((K_aud :> aud) @@ (K_sub :> sub) @@ (K_email :> email) @@ (K_name :> name))

\* a property that is undefined is not there
Without(obj, name) == JObj([k \in (DOMAIN obj.v) \ {name} |-> obj.v[k]])

GoodInfo == Assertion(JStr(ClientId), JStr(<<"s", "1">>), JStr(<<"a", "@", "b">>), JStr(<<"N", " ", "\"", "n", "\"">>))
NoNameInfo == Without(GoodInfo, K_name)
OtherAudInfo == Assertion(JStr(<<"z", "z">>), JStr(<<"s", "2">>), JStr(<<"e", "@", "v">>), JStr(<<"M">>))

InfoResults ==
  { Reject, NotJson(TRUE),
    Answer(FALSE, JObj(<<"e", "r", "r", "o", "r">> :> JStr(<<"x">>))),
    Answer(TRUE, JNull),
    Answer(TRUE, GoodInfo),
    Answer(TRUE, NoNameInfo),
    Answer(TRUE, OtherAudInfo),
    Answer(TRUE, Without(GoodInfo, K_aud)),
    Answer(TRUE, Without(GoodInfo, K_email)),
    Answer(TRUE, Without(GoodInfo, K_sub)),
    Answer(TRUE, [GoodInfo EXCEPT !.v[K_sub] = JStr(<<>>)]) }

---------------------------------------------------------------------------
(* The state after the process has started and before any request          *)

NoMint == [token |-> <<>>]

InitWith(envs) ==
  /\ env \in envs
  /\ clock = StartClock
  /\ cb = Idle
  /\ jar = Undefined
  /\ minted = NoMint
  /\ idp = Undefined
  /\ resp = NoResp

---------------------------------------------------------------------------
(* Requests.  A handler runs when the previous response has been taken.    *)

Start(froms) ==
  /\ resp = NoResp
  /\ \E from \in froms : resp' = StartResponse([from |-> from])
  /\ UNCHANGED <<env, clock, cb, jar, minted, idp>>

\* index.ts 68-90: read the request and the configuration, answer 400 or
\* send the code to the token endpoint and await its answer
CallbackBegin(codes, states) ==
  /\ resp = NoResp
  /\ cb = Idle
  /\ \E code \in codes, state \in states :
       LET c == [pc |-> "token",
                 req |-> [code |-> code, state |-> state],
                 code |-> OrEmpty(code),
                 state |-> OrEmpty(state),
                 clientId |-> EnvOr("GOOGLE_CLIENT_ID"),
                 clientSecret |-> EnvOr("GOOGLE_CLIENT_SECRET"),
                 redirectUri |-> EnvOr("GOOGLE_REDIRECT_URI"),
                 adminJwtSecret |-> EnvOr("ADMIN_JWT_SECRET"),
                 calls |-> NoCalls]
       IN  IF CallbackConfigured(c.code, c.clientId, c.clientSecret, c.redirectUri,
                                 c.adminJwtSecret)
             THEN cb' = c /\ resp' = resp
             ELSE cb' = cb /\ resp' = CallbackError(c, 400, "Invalid Google OAuth callback")
  /\ UNCHANGED <<env, clock, jar, minted, idp>>

\* index.ts 91-97: the token endpoint answers; answer 401 or 500, or send
\* the id token to tokeninfo and await its answer
TokenReturns(results) ==
  /\ resp = NoResp
  /\ cb.pc = "token"
  /\ \E r \in results :
       LET c == [cb EXCEPT !.calls = Append(@, [endpoint |-> "token", result |-> r])]
       IN  IF TokenFailure(r) # 0
             THEN /\ cb' = Idle
                  /\ resp' = CallbackError(c, TokenFailure(r),
                               IF TokenFailure(r) = 401 THEN "Google token exchange failed"
                                                        ELSE "Google auth error")
             ELSE /\ cb' = [pc |-> "info", idToken |-> Get(r.body.v, K_id_token)] @@ c
                  /\ resp' = resp
  /\ UNCHANGED <<env, clock, jar, minted, idp>>

\* index.ts 98-125: tokeninfo answers; answer 401 or 500, or mint the
\* session, set the cookie and redirect
InfoReturns(results) ==
  /\ resp = NoResp
  /\ cb.pc = "info"
  /\ \E r \in results :
       LET c == [cb EXCEPT !.calls = Append(@, [endpoint |-> "tokeninfo", result |-> r])]
           failure == InfoFailure(r, c.clientId)
       IN  IF failure # 0
             THEN /\ resp' = CallbackError(c, failure,
                               IF failure = 401 THEN "Invalid Google ID token"
                                                ELSE "Google auth error")
                  /\ minted' = minted
             ELSE /\ resp' = CallbackSuccess(c, r.body.v)
                  /\ minted' = [token |-> resp'.cookies[1].value,
                                payload |-> InfoPayload(r.body.v),
                                secret |-> c.adminJwtSecret,
                                info |-> r.body.v,
                                cookie |-> resp'.cookies[1],
                                nodeEnv |-> env.NODE_ENV,
                                at |-> NowSec]
  /\ cb' = Idle
  /\ UNCHANGED <<env, clock, jar, idp>>

Me(requests) ==
  /\ resp = NoResp
  /\ \E req \in requests : resp' = MeResponse(req)
  /\ UNCHANGED <<env, clock, cb, jar, minted, idp>>

\* index.ts 40: a request to a protected admin route meets requireAdmin
Admin(requests) ==
  /\ resp = NoResp
  /\ \E req \in requests : resp' = requireAdmin(req)
  /\ UNCHANGED <<env, clock, cb, jar, minted, idp>>

\* the Cookie header a client sends for a cookie value
CookieHeader(value) == JStr(CookieName \o <<"=">> \o value)

JarHeader == IF jar.t = "string" THEN CookieHeader(jar.v) ELSE Undefined

Logout ==
  /\ resp = NoResp
  /\ resp' = LogoutResponse([cookie |-> JarHeader])
  /\ UNCHANGED <<env, clock, cb, jar, minted, idp>>

---------------------------------------------------------------------------
(* The client takes the response: the browser stores a cookie under the    *)
(* value res.cookie wrote (encodeURIComponent of it), drops or empties a   *)
(* cookie whose maxAge is 0, and a start redirect takes `state` to the     *)
(* identity provider.                                                      *)

JarAfter(r) ==
  IF r.cookies = <<>> THEN {jar}
  ELSE IF r.cookies[1].maxAge.t = "number" THEN {Undefined, JStr(<<>>)}
  ELSE {JStr(encodeURIComponent(r.cookies[1].value))}

Deliver ==
  /\ resp # NoResp
  /\ resp' = NoResp
  /\ jar' \in JarAfter(resp)
  /\ idp' = IF resp.route = "start" /\ resp.status = 302
              THEN QueryParam(resp.location.v, <<"s", "t", "a", "t", "e">>)
              ELSE idp
  /\ UNCHANGED <<env, clock, cb, minted>>

---------------------------------------------------------------------------
(* Time passes; the process is restarted under another configuration       *)
(* (dotenv.config() reads it once, line 13), which ends a handler in       *)
(* flight.                                                                 *)

TicksDone ==
  ((clock - StartClock) \div WeekMs) + (((clock - StartClock) % WeekMs) \div TickMs)

Tick(steps) ==
  /\ resp = NoResp
  /\ TicksDone < MaxTicks
  /\ \E d \in steps : clock' = clock + d
  /\ UNCHANGED <<env, cb, jar, minted, idp, resp>>

Restart(envs) ==
  /\ resp = NoResp
  /\ \E e \in envs \ {env} : env' = e
  /\ cb' = Idle
  /\ UNCHANGED <<clock, jar, minted, idp, resp>>

---------------------------------------------------------------------------
(* What clients send to /api/auth/me                                       *)

Request(cookie, adminToken) == [cookie |-> cookie, adminToken |-> adminToken]

PayloadPart(token) == Split(token, ".")[1]
SignaturePart(token) == Split(token, ".")[2]

\* the string s with its i-th character replaced by another one
Flip(s, i) == [s EXCEPT ![i] = IF @ = "A" THEN "B" ELSE "A"]

\* a token with one character of its signature replaced: the first, the
\* middle or the last one
FlippedSignatures(token) ==
  LET sig == SignaturePart(token)
  IN  { PayloadPart(token) \o <<".">> \o Flip(sig, i) :
          i \in {1, (Len(sig) + 1) \div 2, Len(sig)} }

\* not two non-empty parts around one '.'
Malformed(token) ==
  { PayloadPart(token),
    token \o <<".", "x">>,
    token \o <<".">>,
    <<".">> \o SignaturePart(token),
    PayloadPart(token) \o <<".">>,
    <<".">> }

\* a payload of the client's own making, signed with the empty key, which
\* anyone can do
OwnPayload == Payload(<<"s", "1">>, <<"a", "@", "b">>, 2000000000, <<"x">>)
EmptyKeyToken == MintToken(OwnPayload, <<>>)

HeldTokens == IF minted.token = <<>> THEN {} ELSE {minted.token}

\* the cookies of clients that do not know the secret: what they were
\* given, changed or not, and what they can make themselves
ClientCookies ==
  {Undefined, JarHeader, CookieHeader(EmptyKeyToken), CookieHeader(<<".">>)}
  \cup { CookieHeader(t) : t \in HeldTokens }
  \cup { JStr(<<"x", "=", "1", ";", " ">> \o CookieName \o <<" ", "=", " ">> \o t \o <<" ", ";", "y">>) : t \in HeldTokens }
  \cup { CookieHeader(t) : t \in UNION { FlippedSignatures(h) : h \in HeldTokens } }
  \cup { CookieHeader(t) : t \in UNION { Malformed(h) : h \in HeldTokens } }
  \cup { CookieHeader(PayloadPart(h) \o <<".">> \o SignaturePart(EmptyKeyToken)) :
           h \in HeldTokens }

AdminTokens == {Undefined, JStr(<<>>), JStr(ApiToken), JStr(<<"t", "o", "x">>)}

\* with or without the cookie held, under every x-admin-token
TokenRequests == { Request(c, a) : c \in {Undefined, JarHeader}, a \in AdminTokens }

SessionRequests == { Request(c, Undefined) : c \in ClientCookies } \cup TokenRequests

\* req.query.state at the callback: what the provider was sent, or whatever
\* the caller of the callback URL writes
CallbackStates ==
  { idp, Undefined, JStr(OtherOrigin), JStr(Absolute), JArr(<<JStr(PathP)>>) }

---------------------------------------------------------------------------
(* The OAuth flow, under every input of start and callback                 *)

InitFlow == InitWith(FlowEnvs)

NextFlow ==
  \/ Start(Froms)
  \/ CallbackBegin(Codes, CallbackStates)
  \/ TokenReturns(TokenResults)
  \/ InfoReturns(InfoResults)
  \/ Deliver
  \/ Tick({TickMs})

SpecFlow == InitFlow /\ [][NextFlow]_vars

\* the same, where every response is taken by its client and each outbound
\* call the callback awaits (index.ts 86, 98) returns or fails in the end:
\* weak fairness of Deliver and strong fairness of TokenReturns and of
\* InfoReturns, each written with the guard of the action in place of
\* ENABLED and with the change of cb.pc that only this action makes
SpecFlowFair ==
  /\ SpecFlow
  /\ []<>(resp = NoResp)
  /\ \/ <>[]~(resp = NoResp /\ cb.pc = "token")
     \/ []<><<cb.pc = "token" /\ cb'.pc # "token">>_vars
  /\ \/ <>[]~(resp = NoResp /\ cb.pc = "info")
     \/ []<><<cb.pc = "info" /\ cb'.pc # "info">>_vars

---------------------------------------------------------------------------
(* The session check, under every cookie of ClientCookies, with logins     *)
(* that mint tokens, restarts that change the secret and time passing      *)

InitSession == InitWith(SessionEnvs)

\* what a login is given: one code, one state, a token answer that carries
\* the id token, and the assertions the provider may return for it; and
\* the steps of the clock
SessionInputs ==
  [ codes        |-> {JStr(<<"c">>)},
    states       |-> {JStr(PathP)},
    tokenResults |-> {Answer(TRUE, JObj(K_id_token :> JStr(IdToken)))},
    infoResults  |-> {Answer(TRUE, GoodInfo), Answer(TRUE, NoNameInfo),
                      Answer(TRUE, OtherAudInfo)},
    ticks        |-> {TickMs, WeekMs} ]

NextSession ==
  \/ CallbackBegin(SessionInputs.codes, SessionInputs.states)
  \/ TokenReturns(SessionInputs.tokenResults)
  \/ InfoReturns(SessionInputs.infoResults)
  \/ Me(SessionRequests)
  \/ Logout
  \/ Deliver
  \/ Tick(SessionInputs.ticks)
  \/ Restart(SessionEnvs)

SpecSession == InitSession /\ [][NextSession]_vars

---------------------------------------------------------------------------
(* The guard of the admin routes, /api/auth/me and logout, for a client    *)
(* that logs in and out and sends any x-admin-token                        *)

\* the login that succeeds, and a clock that steps by a week
GuardInputs ==
  [ SessionInputs EXCEPT !.infoResults = {Answer(TRUE, GoodInfo)},
                         !.ticks = {WeekMs} ]

NextGuard ==
  \/ CallbackBegin(GuardInputs.codes, GuardInputs.states)
  \/ TokenReturns(GuardInputs.tokenResults)
  \/ InfoReturns(GuardInputs.infoResults)
  \/ Me(TokenRequests)
  \/ Admin(TokenRequests)
  \/ Logout
  \/ Deliver
  \/ Tick(GuardInputs.ticks)
  \/ Restart(GuardEnvs)

SpecGuard == InitWith(GuardEnvs) /\ [][NextGuard]_vars

---------------------------------------------------------------------------
(* What a response of /api/auth/me was asked with                          *)

IsMe == resp.route = "me"
IsCallback == resp.route = "callback"
IsStart == resp.route = "start"

\* the value of the admin_session cookie of the request answered
Presented ==
  LET cookies == parseCookies(resp.req.cookie)
  IN  IF CookieName \in DOMAIN cookies THEN cookies[CookieName] ELSE <<>>

ConfiguredSecret == EnvOr("ADMIN_JWT_SECRET")

HasMinted == minted.token # <<>>

MintedExp == minted.payload.v[K_exp].v

\* a and b differ in exactly one character
SingleCharDiff(a, b) ==
  Len(a) = Len(b) /\ Cardinality({i \in DOMAIN a : a[i] # b[i]}) = 1

\* exactly two non-empty parts around exactly one '.'
ExactlyTwoParts(t) ==
  /\ Cardinality({i \in DOMAIN t : t[i] = "."}) = 1
  /\ t[1] # "."
  /\ t[Len(t)] # "."

---------------------------------------------------------------------------
(* C1  Round trip: the token a callback minted for payload p under secret  *)
(* s, presented while s is the configured secret and p.exp has not passed, *)
(* is accepted by readSession, which returns p field for field.            *)

C1_RoundTrip ==
  (/\ IsMe
   /\ HasMinted
   /\ Presented = minted.token
   /\ ConfiguredSecret = minted.secret
   /\ MintedExp >= NowSec)
  => /\ resp.session = minted.payload
     /\ \A k \in {K_sub, K_email, K_name, K_exp} :
          Get(resp.session, k) = minted.payload.v[k]
     /\ resp.status = 200

C1_Witness ==
  /\ IsMe
  /\ HasMinted
  /\ Presented = minted.token
  /\ ConfiguredSecret = minted.secret
  /\ MintedExp = NowSec
  /\ \E i \in DOMAIN minted.payload.v[K_name].v : minted.payload.v[K_name].v[i] = "\""
  /\ resp.session = minted.payload

(* C2  Signature integrity: a token whose signature differs from the one   *)
(* computed for its payload part under the configured secret in a single   *)
(* character is rejected by readSession.                                   *)

C2_SignatureIntegrity ==
  IsMe =>
    LET parts == Split(Presented, ".")
    IN  (/\ Len(parts) = 2
         /\ SingleCharDiff(parts[2], HmacSha256(ConfiguredSecret, parts[1])))
        => resp.session = JNull

C2_Witness ==
  /\ IsMe
  /\ HasMinted
  /\ ConfiguredSecret = minted.secret
  /\ MintedExp >= NowSec
  /\ PayloadPart(Presented) = PayloadPart(minted.token)
  /\ SingleCharDiff(Presented, minted.token)
  /\ Presented[Len(Presented)] # minted.token[Len(Presented)]
  /\ resp.session = JNull
  /\ resp.status = 401

(* C3  Key separation: a token signed under one non-empty secret is not    *)
(* accepted by readSession while another non-empty secret is configured,   *)
(* also when the secret changed after the token was minted.                *)

C3_KeySeparation ==
  IsMe =>
    LET parts == Split(Presented, ".")
    IN  (/\ Len(parts) = 2
         /\ ConfiguredSecret # <<>>
         /\ \E key \in {SecretA, SecretB} \ {ConfiguredSecret} :
              parts[2] = HmacSha256(key, parts[1]))
        => resp.session = JNull

C3_Witness ==
  /\ IsMe
  /\ HasMinted
  /\ Presented = minted.token
  /\ minted.secret = SecretA
  /\ ConfiguredSecret = SecretB
  /\ MintedExp >= NowSec
  /\ resp.session = JNull

(* C4  Expiry: a minted token whose exp is earlier than the current time   *)
(* is rejected by readSession though its signature is valid, and a request *)
(* that carries only that cookie is answered 401 by /api/auth/me.          *)

C4_ExpiryEnforced ==
  (/\ IsMe
   /\ HasMinted
   /\ Presented = minted.token
   /\ MintedExp < NowSec)
  => /\ resp.session = JNull
     /\ resp.req.adminToken = Undefined
          => resp.status = 401 /\ resp.body = [authenticated |-> FALSE]

C4_Witness ==
  /\ IsMe
  /\ HasMinted
  /\ Presented = minted.token
  /\ ConfiguredSecret = minted.secret
  /\ MintedExp = NowSec - 1
  /\ resp.req.adminToken = Undefined
  /\ resp.status = 401

(* C5  Unconfigured secret: while ADMIN_JWT_SECRET is empty or unset,      *)
(* readSession accepts no cookie, and a callback is answered 400 before    *)
(* any outbound call and mints nothing.                                    *)

C5_NoSecretNoSession ==
  ConfiguredSecret = <<>> =>
    /\ IsMe => resp.session = JNull
    /\ IsCallback => resp.status = 400 /\ resp.calls = NoCalls /\ resp.cookies = <<>>
    /\ cb = Idle

C5_Witness ==
  /\ ConfiguredSecret = <<>>
  /\ IsMe
  /\ Presented = EmptyKeyToken
  /\ resp.session = JNull
  /\ resp.status = 401

(* C6  Malformed cookie: a cookie value that is not two non-empty parts    *)
(* around exactly one '.' is no session to readSession.                    *)

C6_MalformedIsNoSession ==
  (IsMe /\ ~ExactlyTwoParts(Presented)) => resp.session = JNull

C6_Witness ==
  /\ IsMe
  /\ HasMinted
  /\ ConfiguredSecret = minted.secret
  /\ MintedExp >= NowSec
  /\ Presented = minted.token \o <<".", "x">>
  /\ resp.session = JNull
  /\ resp.status = 401

---------------------------------------------------------------------------
(* What a start or callback response was asked with                        *)

\* the state parameter the identity provider reads in the start redirect
SentState == QueryParam(resp.location.v, <<"s", "t", "a", "t", "e">>)

BeginsWithSlash(x) == x.t = "string" /\ Len(x.v) >= 1 /\ x.v[1] = "/"

\* a path of this origin: it begins with one '/', not with '//' or '/\',
\* which a browser reads as the start of a host
SameOriginPath(s) ==
  /\ Len(s) >= 1
  /\ s[1] = "/"
  /\ Len(s) >= 2 => s[2] \notin {"/", "\\"}

\* the assertion tokeninfo answered with, when it answered with an object
HasAssertion ==
  /\ resp.calls # NoCalls
  /\ resp.calls[Len(resp.calls)].endpoint = "tokeninfo"
  /\ resp.calls[Len(resp.calls)].result.kind = "response"
  /\ resp.calls[Len(resp.calls)].result.body.ok
  /\ resp.calls[Len(resp.calls)].result.body.v.t = "object"

AssertionOf == resp.calls[Len(resp.calls)].result.body.v

(* C7  Open-redirect defence at start: the state the identity provider is  *)
(* sent equals the caller's `from` exactly when `from` is a string that    *)
(* begins with '/'; for every other `from` it is '/admin'.                 *)

C7_StartState ==
  (IsStart /\ resp.status = 302) =>
    /\ SentState.t = "string"
    /\ BeginsWithSlash(resp.req.from) <=> SentState = resp.req.from
    /\ ~BeginsWithSlash(resp.req.from) => SentState.v = AdminPath

C7_Witness ==
  /\ IsStart
  /\ resp.status = 302
  /\ resp.req.from = JStr(Absolute)
  /\ SentState = JStr(AdminPath)

(* C8  Callback redirect stays on this origin: a successful callback       *)
(* redirects to `state` if it is a path of this origin and to '/admin'     *)
(* otherwise, and never to a target that names another origin.             *)

C8_RedirectSameOrigin ==
  (IsCallback /\ resp.status = 302) =>
    /\ SameOriginPath(resp.location.v)
    /\ resp.location.v =
         IF resp.req.state.t = "string" /\ SameOriginPath(resp.req.state.v)
           THEN resp.req.state.v
           ELSE AdminPath

(* C9  Audience validation: a callback whose assertion has an audience     *)
(* other than the configured client id is answered 401 and sets no         *)
(* cookie.                                                                 *)

C9_AudienceChecked ==
  (/\ IsCallback
   /\ HasAssertion
   /\ Get(AssertionOf, K_aud) # JStr(EnvOr("GOOGLE_CLIENT_ID")))
  => resp.status = 401 /\ resp.cookies = <<>>

C9_Witness ==
  /\ IsCallback
  /\ HasAssertion
  /\ resp.calls[Len(resp.calls)].result.ok
  /\ AssertionOf = OtherAudInfo
  /\ resp.status = 401
  /\ resp.cookies = <<>>

(* C10  No partial cookie: a callback sets the admin_session cookie only   *)
(* in the response that is the 302 redirect; a callback answered 400, 401  *)
(* or 500 sets no cookie.                                                  *)

C10_NoPartialCookie ==
  IsCallback =>
    /\ resp.status \in {302, 400, 401, 500}
    /\ resp.cookies # <<>> <=> resp.status = 302
    /\ resp.status = 302 =>
         /\ Len(resp.cookies) = 1
         /\ resp.cookies[1].name = CookieName
         /\ resp.cookies[1].value = minted.token

C10_Witness ==
  /\ IsCallback
  /\ Len(resp.calls) = 2
  /\ resp.calls[2].result = Answer(TRUE, JNull)
  /\ resp.status = 500
  /\ resp.cookies = <<>>

---------------------------------------------------------------------------
(* The static admin token                                                  *)

IsAdmin == resp.route = "admin"

\* the request answered was let in
Authenticated == resp.status # 401

\* a static token is configured and the x-admin-token header is exactly it
StaticTokenPresented ==
  /\ env.ADMIN_API_TOKEN.t = "string"
  /\ env.ADMIN_API_TOKEN.v # <<>>
  /\ resp.req.adminToken.t = "string"
  /\ resp.req.adminToken.v = env.ADMIN_API_TOKEN.v

(* C11  Static-token authentication: a request without an admin_session    *)
(* cookie, to /api/auth/me or to a protected admin route, is authenticated *)
(* if and only if a static admin token is configured and the x-admin-token *)
(* header equals it; with neither credential the answer is 401, and while  *)
(* no static token is configured no header value authenticates.            *)

C11_StaticToken ==
  ((IsMe \/ IsAdmin) /\ Presented = <<>>) =>
    /\ Authenticated <=> StaticTokenPresented
    /\ resp.status \in {401, IF IsMe THEN 200 ELSE 0}

C11_Witness ==
  /\ IsMe
  /\ resp.req.cookie = Undefined
  /\ resp.req.adminToken = JStr(ApiToken)
  /\ resp.status = 200

(* C12  Synthetic principal regardless of cookie state: whenever the        *)
(* x-admin-token header matches the configured static token, /api/auth/me  *)
(* answers with the fixed principal dev-admin@local / Dev Admin /          *)
(* dev-admin, whatever the admin_session cookie is.                        *)

C12_SyntheticPrincipal ==
  (IsMe /\ StaticTokenPresented) =>
    /\ resp.status = 200
    /\ resp.body = [authenticated |-> TRUE, user |-> DevAdmin]

---------------------------------------------------------------------------
(* Logout                                                                  *)

IsLogout == resp.route = "logout"

\* what /api/auth/me answers a client that holds cookie j (JarHeader, for a
\* jar j) and sends no x-admin-token
MeOfJar(j) ==
  MeResponse(Request(IF j.t = "string" THEN CookieHeader(j.v) ELSE Undefined,
                     Undefined))

(* C13  Logout then me: whatever the client held, a GET /api/auth/me that  *)
(* follows POST /api/auth/logout and presents the cookie as the logout     *)
(* response left it (dropped or empty) is answered 401 with                *)
(* authenticated:false.                                                    *)

C13_LogoutThenMe ==
  IsLogout =>
    \A j \in JarAfter(resp) :
      /\ MeOfJar(j).status = 401
      /\ MeOfJar(j).body = [authenticated |-> FALSE]
      /\ MeOfJar(j).cookies = <<>>

\* a session was minted, the client logged out and kept an empty cookie,
\* and /api/auth/me answered that cookie
C13_Witness ==
  /\ IsMe
  /\ HasMinted
  /\ jar = JStr(<<>>)
  /\ resp.req = Request(CookieHeader(<<>>), Undefined)
  /\ resp.status = 401
  /\ resp.body = [authenticated |-> FALSE]

---------------------------------------------------------------------------
(* Preconditions of start and callback, and the outbound calls             *)

\* process.env[name] is unset or empty
NotConfigured(name) == env[name].t # "string" \/ env[name].v = <<>>

ClientConfigIncomplete ==
  \/ NotConfigured("GOOGLE_CLIENT_ID")
  \/ NotConfigured("GOOGLE_CLIENT_SECRET")
  \/ NotConfigured("GOOGLE_REDIRECT_URI")

(* C14  Start precondition: if the client id, the client secret or the     *)
(* redirect URI is not configured, GET /api/auth/google/start answers 500  *)
(* and redirects nowhere.                                                  *)

C14_StartPrecondition ==
  (IsStart /\ ClientConfigIncomplete) =>
    /\ resp.status = 500
    /\ resp.location = Undefined

\* the `code` of the callback request answered is absent or empty
NoCode == resp.req.code.t # "string" \/ resp.req.code.v = <<>>

(* C15  Callback precondition: if `code` is absent or empty, or the client *)
(* id, the client secret or the redirect URI is not configured, the        *)
(* callback answers 400 and has made no outbound call; no callback is in   *)
(* flight under an incomplete client configuration.                        *)

C15_CallbackPrecondition ==
  /\ (IsCallback /\ (NoCode \/ ClientConfigIncomplete)) =>
       /\ resp.status = 400
       /\ resp.calls = NoCalls
       /\ resp.cookies = <<>>
  /\ cb # Idle => (~ClientConfigIncomplete /\ Truthy(cb.code))

\* a callback with a code, under a configuration that lacks only the
\* client secret
C15_Witness ==
  /\ IsCallback
  /\ resp.req.code = JStr(<<"c">>)
  /\ NotConfigured("GOOGLE_CLIENT_SECRET")
  /\ ~NotConfigured("GOOGLE_CLIENT_ID")
  /\ ~NotConfigured("GOOGLE_REDIRECT_URI")
  /\ ~NotConfigured("ADMIN_JWT_SECRET")
  /\ resp.status = 400

\* the calls of log made to endpoint
CallsTo(log, endpoint) == {i \in DOMAIN log : log[i].endpoint = endpoint}

\* the outbound calls of one callback: the token endpoint at most once,
\* tokeninfo at most once and only after the token endpoint answered with
\* success
SingleShot(log) ==
  /\ Len(log) <= 2
  /\ Cardinality(CallsTo(log, "token")) <= 1
  /\ Cardinality(CallsTo(log, "tokeninfo")) <= 1
  /\ \A i \in CallsTo(log, "tokeninfo") :
       /\ i = 2
       /\ log[1].endpoint = "token"
       /\ log[1].result.kind = "response"
       /\ log[1].result.ok

\* the token endpoint answered, and not with success
TokenRefused(log) ==
  /\ log # NoCalls
  /\ log[1].endpoint = "token"
  /\ log[1].result.kind = "response"
  /\ ~log[1].result.ok

(* C16  Code exchange is single-shot: one callback calls the token         *)
(* endpoint at most once and tokeninfo at most once, tokeninfo only after  *)
(* the token endpoint answered with success; a non-success answer of the   *)
(* token endpoint is answered 401 and tokeninfo is then never called.      *)

C16_SingleShot ==
  /\ cb # Idle => SingleShot(cb.calls)
  /\ IsCallback =>
       /\ SingleShot(resp.calls)
       /\ TokenRefused(resp.calls) =>
            /\ resp.status = 401
            /\ CallsTo(resp.calls, "tokeninfo") = {}

---------------------------------------------------------------------------
(* The session check under the cookies of someone who can sign: a holder   *)
(* of the secret SecretA (another service that shares it, an earlier       *)
(* version of this one) signs payload parts the callback never writes      *)

\* the JSON texts signed
PayloadText(kind) ==
  CASE kind = "good"     -> <<"{", "\"", "s", "u", "b", "\"", ":", "\"", "s", "1", "\"", ",", "\"", "e", "m", "a", "i", "l", "\"", ":", "\"", "a", "@", "b", "\"", ",", "\"", "e", "x", "p", "\"", ":", "2", "0", "0", "0", "0", "0", "0", "0", "0", "0", ",", "\"", "n", "a", "m", "e", "\"", ":", "\"", "x", "\"", "}">>
    [] kind = "past"     -> <<"{", "\"", "s", "u", "b", "\"", ":", "\"", "s", "1", "\"", ",", "\"", "e", "m", "a", "i", "l", "\"", ":", "\"", "a", "@", "b", "\"", ",", "\"", "e", "x", "p", "\"", ":", "1", ",", "\"", "n", "a", "m", "e", "\"", ":", "\"", "x", "\"", "}">>
    [] kind = "noExp"    -> <<"{", "\"", "s", "u", "b", "\"", ":", "\"", "s", "1", "\"", ",", "\"", "e", "m", "a", "i", "l", "\"", ":", "\"", "a", "@", "b", "\"", "}">>
    [] kind = "zeroExp"  -> <<"{", "\"", "s", "u", "b", "\"", ":", "\"", "s", "1", "\"", ",", "\"", "e", "m", "a", "i", "l", "\"", ":", "\"", "a", "@", "b", "\"", ",", "\"", "e", "x", "p", "\"", ":", "0", "}">>
    [] kind = "textExp"  -> <<"{", "\"", "s", "u", "b", "\"", ":", "\"", "s", "1", "\"", ",", "\"", "e", "m", "a", "i", "l", "\"", ":", "\"", "a", "@", "b", "\"", ",", "\"", "e", "x", "p", "\"", ":", "\"", "2", "0", "0", "0", "0", "0", "0", "0", "0", "0", "\"", "}">>
    [] kind = "noSub"    -> <<"{", "\"", "e", "m", "a", "i", "l", "\"", ":", "\"", "a", "@", "b", "\"", ",", "\"", "e", "x", "p", "\"", ":", "2", "0", "0", "0", "0", "0", "0", "0", "0", "0", "}">>
    [] kind = "emptySub" -> <<"{", "\"", "s", "u", "b", "\"", ":", "\"", "\"", ",", "\"", "e", "m", "a", "i", "l", "\"", ":", "\"", "a", "@", "b", "\"", ",", "\"", "e", "x", "p", "\"", ":", "2", "0", "0", "0", "0", "0", "0", "0", "0", "0", "}">>
    [] kind = "noEmail"  -> <<"{", "\"", "s", "u", "b", "\"", ":", "\"", "s", "1", "\"", ",", "\"", "e", "x", "p", "\"", ":", "2", "0", "0", "0", "0", "0", "0", "0", "0", "0", "}">>
    [] kind = "notJson"  -> <<"{", "\"", "s", "u", "b", "\"", ":", "\"", "s", "1", "\"", ",">>
    [] kind = "null"     -> <<"n", "u", "l", "l">>
    [] kind = "number"   -> <<"5">>
    [] kind = "string"   -> <<"\"", "s", "\"">>
    [] kind = "array"    -> <<"[", "1", "]">>

\* the payload part of a kind: the encoding of its text, or a part that is
\* not base64url at all
PartOf(kind) == IF kind = "notBase64" THEN <<"!", "!">>
                ELSE Base64UrlEncode(PayloadText(kind))

\* the Cookie headers sent: none, malformed values, a wrong signature, and
\* every payload part signed under SecretA
CodecCookies ==
  { Undefined,
    CookieHeader(PartOf("good")),
    CookieHeader(SignToken(PartOf("good"), SecretA) \o <<".", "x">>),
    CookieHeader(PartOf("good") \o <<".", "A", "A", "A", "A">>) }
  \cup { CookieHeader(SignToken(PartOf(k), SecretA)) :
           k \in { "good", "past", "noExp", "zeroExp", "textExp", "noSub",
                   "emptySub", "noEmail", "notJson", "null", "number", "string",
                   "array", "notBase64" } }

\* each of them, with and without the static token
CodecRequests ==
  { Request(c, a) : c \in CodecCookies, a \in {Undefined, JStr(ApiToken)} }

NextCodec ==
  \/ Me(CodecRequests)
  \/ Deliver
  \/ Tick(SessionInputs.ticks)
  \/ Restart(SessionEnvs)

SpecCodec == InitWith(SessionEnvs) /\ [][NextCodec]_vars

---------------------------------------------------------------------------
(* What the cookie of the request answered is                              *)

\* it has two non-empty parts and its signature is the configured secret's
CorrectlySigned ==
  /\ ExactlyTwoParts(Presented)
  /\ ConfiguredSecret # <<>>
  /\ SignaturePart(Presented) = HmacSha256(ConfiguredSecret, PayloadPart(Presented))

\* it is correctly signed over the payload part of this kind
SignedKind(kind) == CorrectlySigned /\ PayloadPart(Presented) = PartOf(kind)

NonEmptyString(x) == x.t = "string" /\ x.v # <<>>

(* C17  Decode fails closed on missing fields: a correctly signed,         *)
(* unexpired token whose payload lacks a non-empty sub or a non-empty      *)
(* email is no session; the payload readSession returns always has both,   *)
(* and so has the user /api/auth/me answers with.                          *)

C17_FailsClosed ==
  (IsMe /\ CorrectlySigned /\ resp.session # JNull) =>
    /\ NonEmptyString(Get(resp.session, K_sub))
    /\ NonEmptyString(Get(resp.session, K_email))
    /\ NonEmptyString(resp.body.user.sub)
    /\ NonEmptyString(resp.body.user.email)

\* why the cookie of the request answered is no session
MissingCookie == Presented = <<>>
MalformedCookie == Presented # <<>> /\ ~ExactlyTwoParts(Presented)
WronglySigned == ExactlyTwoParts(Presented) /\ ~CorrectlySigned

\* payload parts that do not decode to an object with a usable exp
UndecodableKinds ==
  { "notBase64", "notJson", "null", "number", "string", "array",
    "noExp", "zeroExp", "textExp" }

Undecodable == \E k \in UndecodableKinds : SignedKind(k)

\* the payload of kind "past" has exp 1
ExpiredCookie == SignedKind("past") /\ NowSec > 1

(* C18  Uniform failure: without a matching x-admin-token, /api/auth/me    *)
(* gives one and the same answer (401, {authenticated:false}, no cookie,   *)
(* no redirect) whether the cookie is missing, malformed, wrongly signed,  *)
(* undecodable or expired.                                                 *)

C18_UniformFailure ==
  (/\ IsMe
   /\ ~StaticTokenPresented
   /\ MissingCookie \/ MalformedCookie \/ WronglySigned \/ Undecodable \/ ExpiredCookie) =>
    /\ resp.status = 401
    /\ resp.body = [authenticated |-> FALSE]
    /\ resp.cookies = <<>>
    /\ resp.location = Undefined

\* the answer to an expired cookie
C18_Witness ==
  /\ IsMe
  /\ ~StaticTokenPresented
  /\ ExpiredCookie
  /\ resp.status = 401

(* C19  Verification never throws: for every Cookie header readSession     *)
(* returns a payload or null and /api/auth/me never ends in the error      *)
(* handler; a correctly signed token whose payload part is not base64url,  *)
(* not JSON, not an object, or whose exp is missing, zero or not a number  *)
(* yields null.                                                            *)

C19_NeverThrows ==
  IsMe =>
    /\ resp.session.t \in {"null", "object"}
    /\ resp.status \in {200, 401}
    /\ Undecodable => resp.session = JNull

\* a correctly signed token whose payload is the JSON text null
C19_Witness ==
  /\ IsMe
  /\ SignedKind("null")
  /\ resp.session = JNull
  /\ resp.status = 401

---------------------------------------------------------------------------
(* The cookie of logout against the cookie of the callback                 *)

\* the attributes a browser matches a cookie by, and those that guard it
Attributes(cookie) ==
  [name |-> cookie.name, path |-> cookie.path, sameSite |-> cookie.sameSite,
   httpOnly |-> cookie.httpOnly, secure |-> cookie.secure]

(* C20  Logout clears the minted cookie: logout answers 200 {ok:true} to   *)
(* every request and writes one admin_session cookie with an empty value   *)
(* and maxAge 0; under the NODE_ENV a callback minted its cookie under,    *)
(* the name, path, sameSite, httpOnly and secure attributes of the two     *)
(* cookies are the same.                                                   *)

C20_LogoutClears ==
  IsLogout =>
    /\ resp.status = 200
    /\ resp.body = [ok |-> TRUE]
    /\ Len(resp.cookies) = 1
    /\ resp.cookies[1].name = CookieName
    /\ resp.cookies[1].value = <<>>
    /\ resp.cookies[1].maxAge = JNum(0)
    /\ (HasMinted /\ minted.nodeEnv = env.NODE_ENV) =>
         Attributes(resp.cookies[1]) = Attributes(minted.cookie)

\* a logout in production mode after a login in production mode, by a
\* client that holds the minted cookie
C20_Witness ==
  /\ IsLogout
  /\ HasMinted
  /\ minted.nodeEnv = env.NODE_ENV
  /\ minted.cookie.secure
  /\ resp.cookies[1].secure
  /\ jar = JStr(encodeURIComponent(minted.token))


---------------------------------------------------------------------------
(* The verdict on a cookie, whatever else the server has answered          *)

\* the client holds no cookie: it has logged out since its last login, or
\* has never logged in
JarCleared == jar = Undefined \/ jar = JStr(<<>>)

\* readSession accepts the token signed under SecretA over this payload
AcceptsSigned(kind) ==
  Truthy(readSession(CookieHeader(SignToken(PartOf(kind), SecretA))))

(* C21  Stateless, independent requests: in every state the server can be  *)
(* in (a callback in flight or not, before or after any start, callback,   *)
(* me or logout), what readSession says of a given cookie is decided by    *)
(* the configured secret and the current time alone; and a minted token    *)
(* presented again after a logout is accepted exactly as long as its       *)
(* secret is configured and its exp has not passed.                        *)

C21_Stateless ==
  /\ AcceptsSigned("good") <=> ConfiguredSecret = SecretA
  /\ AcceptsSigned("past") <=> (ConfiguredSecret = SecretA /\ NowSec <= 1)
  /\ (IsMe /\ HasMinted /\ Presented = minted.token /\ JarCleared) =>
       (Truthy(resp.session) <=>
          (ConfiguredSecret = minted.secret /\ MintedExp >= NowSec))

\* the token of a login, replayed after the logout while the next login's
\* callback awaits the token endpoint, is accepted
C21_Witness ==
  /\ IsMe
  /\ HasMinted
  /\ Presented = minted.token
  /\ JarCleared
  /\ cb.pc = "token"
  /\ resp.session = minted.payload
  /\ resp.status = 200

---------------------------------------------------------------------------
(* The work of the signature comparison                                    *)

\* the signature readSession computes for the cookie of the request
ExpectedSig == HmacSha256(ConfiguredSecret, PayloadPart(Presented))

(* C22  Constant-time signature check: whenever readSession compares a     *)
(* presented signature of the right length with the expected one, the      *)
(* comparison looks at every character, wherever the first mismatch is.    *)

C22_ConstantTime ==
  (/\ IsMe
   /\ ExactlyTwoParts(Presented)
   /\ ConfiguredSecret # <<>>
   /\ Len(SignaturePart(Presented)) = Len(ExpectedSig))
  => CompareSteps(SignaturePart(Presented), ExpectedSig) = Len(ExpectedSig)

---------------------------------------------------------------------------
(* What a callback that set the cookie had been answered                   *)

\* the callback answered has set a cookie
SetsCookie == IsCallback /\ resp.cookies # <<>>

\* the i-th outbound call of the callback answered went to this endpoint
\* and was answered with a success
Succeeded(i, endpoint) ==
  /\ resp.calls[i].endpoint = endpoint
  /\ resp.calls[i].result.kind = "response"
  /\ resp.calls[i].result.ok

\* the payload inside a token, as its holder reads it
PayloadOf(token) == JSONparse(Base64UrlDecode(PayloadPart(token))).v

(* C23  Mint precondition: a callback sets the cookie only after, in this  *)
(* order, the token endpoint and then tokeninfo answered with a success,   *)
(* and the assertion's audience was the configured client id and its email *)
(* and sub were non-empty; the payload inside every minted token has a     *)
(* non-empty sub and email, and a callback sets one cookie at most.        *)

C23_MintPrecondition ==
  /\ SetsCookie =>
       /\ Len(resp.calls) = 2
       /\ Succeeded(1, "token")
       /\ Succeeded(2, "tokeninfo")
       /\ HasAssertion
       /\ Get(AssertionOf, K_aud) = JStr(EnvOr("GOOGLE_CLIENT_ID"))
       /\ NonEmptyString(Get(AssertionOf, K_email))
       /\ NonEmptyString(Get(AssertionOf, K_sub))
       /\ Len(resp.cookies) = 1
       /\ resp.cookies[1].value = minted.token
       /\ Get(PayloadOf(resp.cookies[1].value), K_sub) = Get(AssertionOf, K_sub)
       /\ Get(PayloadOf(resp.cookies[1].value), K_email) = Get(AssertionOf, K_email)
  /\ IsCallback => Len(resp.cookies) <= 1
  /\ HasMinted =>
       /\ NonEmptyString(minted.payload.v[K_sub])
       /\ NonEmptyString(minted.payload.v[K_email])

\* a login whose assertion has no name sets the cookie
C23_Witness ==
  /\ SetsCookie
  /\ resp.status = 302
  /\ AssertionOf = NoNameInfo
  /\ Get(PayloadOf(resp.cookies[1].value), K_sub) = JStr(<<"s", "1">>)

---------------------------------------------------------------------------
(* C24  Session lifetime window: the token a callback minted at second t   *)
(* carries exp = t + 604800; while the secret it was minted under is       *)
(* configured, readSession accepts it at every second up to and including  *)
(* exp and rejects it at every later second, so that, the clock never      *)
(* going back, a token once rejected for expiry is not accepted again.     *)

C24_LifetimeWindow ==
  /\ HasMinted =>
       /\ MintedExp = minted.at + 604800
       /\ Get(PayloadOf(minted.token), K_exp) = JNum(minted.at + 604800)
  /\ (/\ IsMe
      /\ HasMinted
      /\ Presented = minted.token
      /\ ConfiguredSecret = minted.secret)
     => /\ NowSec >= minted.at
        /\ NowSec <= minted.at + 604800 => resp.session = minted.payload
        /\ NowSec > minted.at + 604800 => resp.session = JNull

\* the token presented in the last second of its life, and accepted
C24_Witness ==
  /\ IsMe
  /\ HasMinted
  /\ Presented = minted.token
  /\ ConfiguredSecret = minted.secret
  /\ NowSec = minted.at + 604800
  /\ resp.session = minted.payload
  /\ resp.status = 200

---------------------------------------------------------------------------
(* From start to the callback's redirect                                   *)

\* where a login begun with this `from` is to end
Target(from) == IF BeginsWithSlash(from) THEN from.v ELSE AdminPath

\* the callback answered passed every check of the provider's answers
Completed == IsCallback /\ resp.status = 302

\* the provider's answers to the callback answered are those of a login
\* that succeeds
GoodAnswers ==
  /\ Len(resp.calls) = 2
  /\ Succeeded(1, "token")
  /\ Succeeded(2, "tokeninfo")
  /\ HasAssertion
  /\ AssertionOf \in {GoodInfo, NoNameInfo}

(* C25  Start and callback compose: the state the provider reads in        *)
(* start's redirect passes the callback's check unchanged, so it sends the *)
(* login to `from` if `from` begins with '/' and to '/admin' otherwise; a  *)
(* callback given back the provider's state redirects to exactly it; and a *)
(* callback whose state is absent or does not begin with '/' is not        *)
(* rejected for it: with the provider's answers good it ends in a 302 to   *)
(* '/admin'.                                                               *)

C25_StartCallbackCompose ==
  /\ (IsStart /\ resp.status = 302) =>
       /\ BeginsWithSlash(SentState)
       /\ dest(SentState) = SentState.v
       /\ dest(SentState) = Target(resp.req.from)
  /\ idp # Undefined => BeginsWithSlash(idp)
  /\ (Completed /\ resp.req.state = idp /\ idp # Undefined) =>
       resp.location = idp
  /\ (Completed /\ ~BeginsWithSlash(resp.req.state)) =>
       resp.location = JStr(AdminPath)
  /\ (IsCallback /\ GoodAnswers /\ EnvOr("GOOGLE_CLIENT_ID") = ClientId) =>
       Completed

\* a login begun with a path that a query string has to escape ends there
C25_Witness ==
  /\ Completed
  /\ idp = JStr(PathP)
  /\ resp.req.state = idp
  /\ resp.location = JStr(PathP)

---------------------------------------------------------------------------
(* C26  Unforgeability: when clients do not know the signing secret (they  *)
(* send the cookies they were given, changed or not, and what they can     *)
(* make themselves), every cookie readSession accepts is, character for    *)
(* character, the token a successful callback minted under the secret that *)
(* is configured now, and the sub and email of the principal are those of  *)
(* an identity assertion whose audience was the client id.                 *)

C26_Unforgeable ==
  (IsMe /\ Truthy(resp.session)) =>
    /\ HasMinted
    /\ Presented = minted.token
    /\ ConfiguredSecret = minted.secret
    /\ Get(minted.info, K_aud) = JStr(ClientId)
    /\ Get(resp.session, K_sub) = Get(minted.info, K_sub)
    /\ Get(resp.session, K_email) = Get(minted.info, K_email)
    /\ resp.body.user.sub = Get(minted.info, K_sub)
    /\ resp.body.user.email = Get(minted.info, K_email)

\* the minted token, replayed among other cookies of the header, is accepted
C26_Witness ==
  /\ IsMe
  /\ Truthy(resp.session)
  /\ resp.req.cookie # CookieHeader(minted.token)
  /\ Presented = minted.token
  /\ jar = JStr(minted.token)
  /\ resp.status = 200
  /\ resp.body.user.sub = JStr(<<"s", "1">>)

---------------------------------------------------------------------------
(* C27  Every callback is answered exactly once: if each outbound call     *)
(* returns or fails in the end, a callback that awaits one is answered in  *)
(* the end; every answer to a callback is a 302, 400, 401 or 500 of the    *)
(* handler itself, never the application's error handler's; and the        *)
(* handler that has answered has ended, so it answers no second time.      *)

C27_AnsweredOnce ==
  /\ [](IsCallback =>
          /\ resp.status \in {302, 400, 401, 500}
          /\ resp.body # [error |-> "Internal Server Error"]
          /\ cb = Idle)
  /\ (cb # Idle) ~> IsCallback

\* a callback whose first fetch failed is answered 500 by its own catch
C27_Witness ==
  /\ IsCallback
  /\ resp.status = 500
  /\ resp.body = [error |-> "Google auth error"]
  /\ Len(resp.calls) = 1
  /\ resp.calls[1].result = Reject
  /\ cb = Idle

===========================================================================
